---- MODULE Spec2Model ----
(***************************************************************************)
(* Model of the Uno rules engine, server/core/uno.py (Card, Deck, Player,  *)
(* Game).  One Game object is modelled: its fields are the variables, its  *)
(* constructor is Init followed by the start-discard loop, and draw, play  *)
(* and remove_player are the actions.                                      *)
(***************************************************************************)
EXTENDS Integers, Sequences, FiniteSets, TLC

(***************************************************************************)
(* Bounds of the model.                                                    *)
(***************************************************************************)
\* calls that change the game are counted; at most MaxMoves of them happen
MaxMoves == 3
\* random.shuffle is modelled by the reversal and the rotations by 0..MaxShuffle
MaxShuffle == 1
\* a caller offers to play one of the first MaxOffer cards of its hand, or the last
MaxOffer == 2
\* the number of join requests made to the room
MaxRequests == 3

(***************************************************************************)
(* Sequence helpers.                                                       *)
(***************************************************************************)
Last(s) == s[Len(s)]

Front(s) == SubSeq(s, 1, Len(s) - 1)

Reverse(s) == [i \in 1..Len(s) |-> s[Len(s) + 1 - i]]

Rotate(s, k) ==
    IF Len(s) = 0 THEN s
    ELSE [i \in 1..Len(s) |-> s[((i - 1 + k) % Len(s)) + 1]]

RemoveAt(s, i) == SubSeq(s, 1, i - 1) \o SubSeq(s, i + 1, Len(s))

Min(a, b) == IF a <= b THEN a ELSE b

(***************************************************************************)
(* Player: id is derived from the name; equality and hashing are by id.    *)
(***************************************************************************)
\* the names used as inputs, in the lexicographic order of their ids
NameOrder == <<"ann", "bob", "cat">>

Names == {NameOrder[i] : i \in 1..Len(NameOrder)}

PlayerId(name) == <<"player", name>>

PlayerIds == {PlayerId(n) : n \in Names}

Rank(name) == CHOOSE i \in 1..Len(NameOrder) : NameOrder[i] = name

RECURSIVE SortedById(_)
SortedById(S) ==
    IF S = {} THEN <<>>
    ELSE LET first == CHOOSE p \in S : \A q \in S : Rank(p) <= Rank(q)
         IN  <<first>> \o SortedById(S \ {first})

(***************************************************************************)
(* Card and Deck.                                                          *)
(***************************************************************************)
Card(color, value) == [color |-> color, value |-> value]

CardId(card) == <<card.value, card.color>>

is_black(card) == card.color = "black"

is_draw_four(card) == card.value = "draw-four"

is_wild(card) == card.value = "wild"

COLORS == <<"red", "blue", "green", "yellow">>

ColorSet == {COLORS[i] : i \in 1..Len(COLORS)}

NUMBER_CARDS ==
    <<"0", "1", "2", "3", "4", "5", "6", "7", "8", "9",
      "1", "2", "3", "4", "5", "6", "7", "8", "9">>

DRAW_TWO_CARDS == <<"draw-two", "draw-two">>

REVERSE_CARDS == <<"reverse", "reverse">>

SKIP_CARDS == <<"skip", "skip">>

DRAW_FOUR_CARDS == <<"draw-four", "draw-four", "draw-four", "draw-four">>

WILD_CARDS == <<"wild", "wild", "wild", "wild">>

COLOR_CARDS == NUMBER_CARDS \o DRAW_TWO_CARDS \o REVERSE_CARDS \o SKIP_CARDS

\* Deck.__init__ before the shuffle: colours outermost, values innermost
DeckCards ==
    LET per == Len(COLOR_CARDS)
        color_cards == [i \in 1..(Len(COLORS) * per) |->
                          Card(COLORS[((i - 1) \div per) + 1],
                               COLOR_CARDS[((i - 1) % per) + 1])]
        black_values == DRAW_FOUR_CARDS \o WILD_CARDS
        black_cards == [i \in 1..Len(black_values) |-> Card("black", black_values[i])]
    IN  color_cards \o black_cards

\* the outcomes of random.shuffle the model explores
ShuffleChoices == 0..(MaxShuffle + 1)

Shuffle(s, k) == IF k > MaxShuffle THEN Reverse(s) ELSE Rotate(s, k)

\* cards with the first occurrence of each card of taken removed
RECURSIVE Without(_, _)
Without(cards, taken) ==
    IF taken = <<>> THEN cards
    ELSE LET i == CHOOSE j \in 1..Len(cards) :
                    /\ cards[j] = taken[1]
                    /\ \A h \in 1..(j - 1) : cards[h] # taken[1]
         IN  Without(RemoveAt(cards, i), Tail(taken))

\* a permutation of the deck: front is dealt first, the last of end is drawn
\* first, the other cards keep the order Deck.__init__ built them in
Arrange(front, end) == front \o Without(DeckCards, front \o end) \o end

\* the cards dealt first in the orders the model starts from
Fronts ==
    {<<Card("red", "draw-two"), Card("red", "reverse"), Card("black", "wild"),
       Card("red", "skip"), Card("black", "draw-four"), Card("red", "3")>>,
     <<Card("black", "draw-four"), Card("blue", "4"), Card("green", "6"),
       Card("yellow", "reverse"), Card("blue", "7"), Card("black", "wild")>>}

\* the cards drawn first (from the end) in the orders the model starts from
Ends ==
    {<<Card("red", "7"), Card("blue", "9"), Card("red", "4")>>,
     <<Card("red", "7"), Card("blue", "9"), Card("black", "wild")>>,
     <<Card("red", "7"), Card("blue", "9"), Card("red", "draw-two"),
       Card("black", "draw-four")>>}

\* the orders Deck.shuffle leaves the deck in that the model starts from
DeckOrders == {Arrange(f, e) : f \in Fronts, e \in Ends}

\* the (number of players, hand_size) pairs the model constructs games for;
\* 53 cards each for two players leave two cards: the top card and a draw pile
\* of one card
Tables == {<<2, 1>>, <<2, 2>>, <<3, 2>>, <<2, 7>>, <<2, 53>>}

MIN_PLAYERS_ALLOWED == 2

MAX_PLAYERS_ALLOWED == 2

\* None for pending_draw_for_index, current_color and chosen_color
NoIndex == -1

NoColor == "none"

(***************************************************************************)
(* State: the fields of Game, the constructor's position and inputs, and   *)
(* what the last call emitted (notification sink, on_game_over, raise).    *)
(***************************************************************************)
VARIABLES
    hands,                  \* Player -> sequence of Card
    players_list,           \* sequence of Player, sorted by id
    players,                \* set of Player
    current_index,          \* 0-based seat pointer
    direction,              \* 1 or -1
    current_color,
    pending_draw_count,
    pending_draw_for_index,
    remaining_cards,        \* draw pile, drawn from the end
    game_stack,             \* discard stack, top is the last element
    phase,                  \* "start_discard" inside the constructor, then "ready"
    hand_size,              \* the constructor's hand_size argument
    last,                   \* the last call and what it emitted
    game_over_calls,        \* the on_game_over invocations, in order
    moves,                  \* number of calls that changed a Game field
    players_row,            \* the room's row of table players: <<>> or <<set>>
    games_row,              \* the room has a row in table games
    requests                \* the join requests: position and what each has read

gameVars ==
    <<hands, players_list, players, current_index, direction, current_color,
      pending_draw_count, pending_draw_for_index, remaining_cards, game_stack>>

\* the room as State (server/lib/state.py) stores it, and the requests to it
roomVars == <<players_row, games_row, requests>>

vars ==
    <<hands, players_list, players, current_index, direction, current_color,
      pending_draw_count, pending_draw_for_index, remaining_cards, game_stack,
      phase, hand_size, last, game_over_calls, moves, roomVars>>

\* the join requests, and the name of the player each is made for
Requests == 1..MaxRequests

RequestName(i) == NameOrder[((i - 1) % Len(NameOrder)) + 1]

\* State.__init__: empty tables; no request has begun
RoomInit ==
    /\ players_row = <<>>
    /\ games_row = FALSE
    /\ requests = [i \in Requests |->
                     [pc |-> "idle", action |-> "", started |-> FALSE,
                      players |-> {}, verdict |-> ""]]

\* the Game object as one value
Game ==
    [hands |-> hands, players_list |-> players_list, players |-> players,
     current_index |-> current_index, direction |-> direction,
     current_color |-> current_color, pending_draw_count |-> pending_draw_count,
     pending_draw_for_index |-> pending_draw_for_index,
     remaining_cards |-> remaining_cards, game_stack |-> game_stack]

(***************************************************************************)
(* Game helpers.                                                           *)
(***************************************************************************)
get_top_card(g) == Last(g.game_stack)

next_index(g, steps) ==
    (g.current_index + steps * g.direction) % Len(g.players_list)

advance_turn(g, steps) == [g EXCEPT !.current_index = next_index(g, steps)]

\* the top card goes into the new draw pile as well
transfer_whole_stack(g, k) ==
    [g EXCEPT !.remaining_cards = Shuffle(g.game_stack, k),
              !.game_stack = <<get_top_card(g)>>]

transfer_played_cards(g, k) ==
    [g EXCEPT !.remaining_cards = Shuffle(Front(g.game_stack), k),
              !.game_stack = <<get_top_card(g)>>]

\* every card passes
can_play_any_card(g, card, top_card) == TRUE

can_play_card(g, card, top_card) ==
    IF g.current_color # NoColor
    THEN IF is_black(card) THEN TRUE
         ELSE card.color = g.current_color \/ card.value = top_card.value
    ELSE IF is_black(top_card) THEN TRUE
         ELSE is_black(card) \/ card.color = top_card.color
                \/ card.value = top_card.value

\* the card is put into the hand without leaving the pile
take_card_copies(g, player) ==
    [g EXCEPT !.hands[player] = Append(@, Last(g.remaining_cards))]

\* remaining_cards.pop() into a hand
take_card(g, player) ==
    [g EXCEPT !.hands[player] = Append(@, Last(g.remaining_cards)),
              !.remaining_cards = Front(@)]

RECURSIVE draw_n(_, _, _, _)
draw_n(g, player, n, k) ==
    IF n = 0 THEN g
    ELSE LET g1 == IF g.remaining_cards = <<>>
                   THEN transfer_played_cards(g, k) ELSE g
         IN  IF g1.remaining_cards = <<>> THEN g1
             ELSE draw_n(take_card(g1, player), player, n - 1, k)

DigitValue(value) ==
    CASE value = "0" -> 0 [] value = "1" -> 1 [] value = "2" -> 2
      [] value = "3" -> 3 [] value = "4" -> 4 [] value = "5" -> 5
      [] value = "6" -> 6 [] value = "7" -> 7 [] value = "8" -> 8
      [] value = "9" -> 9

Digits == {"0", "1", "2", "3", "4", "5", "6", "7", "8", "9"}

\* the black cards are passed over
CardScore_black_unscored(c) ==
    IF c.value \in Digits THEN DigitValue(c.value)
    ELSE IF c.value \in {"draw-two", "reverse", "skip"} THEN 20
    ELSE 0

CardScore(c) ==
    IF c.value \in Digits THEN DigitValue(c.value)
    ELSE IF c.value \in {"draw-two", "reverse", "skip"} THEN 20
    ELSE IF is_black(c) THEN 50
    ELSE 0

RECURSIVE SumScore(_)
SumScore(cards) ==
    IF cards = <<>> THEN 0 ELSE CardScore(cards[1]) + SumScore(Tail(cards))

RECURSIVE ScoreFrom(_, _, _)
ScoreFrom(g, exclude_player, i) ==
    IF i > Len(g.players_list) THEN 0
    ELSE (IF g.players_list[i] = exclude_player THEN 0
          ELSE SumScore(g.hands[g.players_list[i]]))
         + ScoreFrom(g, exclude_player, i + 1)

calculate_score(g, exclude_player) == ScoreFrom(g, exclude_player, 1)

\* index (1-based) of the first object with this id; 0 stands for ValueError
find_object_idx(cards, card_id) ==
    IF \E i \in 1..Len(cards) : CardId(cards[i]) = card_id
    THEN CHOOSE i \in 1..Len(cards) :
            /\ CardId(cards[i]) = card_id
            /\ \A j \in 1..(i - 1) : CardId(cards[j]) # card_id
    ELSE 0

(***************************************************************************)
(* What a call returns to the model: the Game after it, and what it        *)
(* emitted.  outcome is "ok", the notification text, or the exception.     *)
(***************************************************************************)
Result(g, outcome) ==
    [g |-> g, outcome |-> outcome, penalty |-> FALSE, won |-> FALSE, score |-> 0,
     winner |-> ""]

(***************************************************************************)
(* Game.__init__ up to the start-discard loop.                             *)
(***************************************************************************)
Deal(cards, plist, hs) ==
    LET n == Len(plist)
        dealt == SubSeq(cards, 1, Min(n * hs, Len(cards)))
        seat(p) == CHOOSE i \in 1..n : plist[i] = p
        count(p) == Cardinality({i \in 1..Len(dealt) : ((i - 1) % n) + 1 = seat(p)})
    IN  [p \in {plist[i] : i \in 1..n} |->
            [j \in 1..count(p) |-> dealt[(j - 1) * n + seat(p)]]]

\* the constructor called with a deck order out of orders and a table out of
\* tables
InitOf(orders, tables) ==
    \E cards \in orders, table \in tables :
        LET n == table[1]
            hs == table[2]
            ps == {NameOrder[i] : i \in 1..n}
            plist == SortedById(ps)
        IN  /\ Cardinality(ps) >= MIN_PLAYERS_ALLOWED
            /\ n * hs < Len(cards)
            /\ players_list = plist
            /\ players = ps
            /\ hands = Deal(cards, plist, hs)
            /\ current_index = 0
            /\ direction = 1
            /\ current_color = NoColor
            /\ pending_draw_count = 0
            /\ pending_draw_for_index = NoIndex
            /\ remaining_cards = SubSeq(cards, n * hs + 1, Len(cards))
            /\ game_stack = <<>>
            /\ phase = "start_discard"
            /\ hand_size = hs
            /\ last = [op |-> "init", outcome |-> "ok", penalty |-> FALSE,
                       won |-> FALSE, score |-> 0, winner |-> ""]
            /\ game_over_calls = <<>>
            /\ moves = 0
            /\ RoomInit

Init == InitOf(DeckOrders, Tables)

SetGame(g) ==
    /\ hands' = g.hands
    /\ players_list' = g.players_list
    /\ players' = g.players
    /\ current_index' = g.current_index
    /\ direction' = g.direction
    /\ current_color' = g.current_color
    /\ pending_draw_count' = g.pending_draw_count
    /\ pending_draw_for_index' = g.pending_draw_for_index
    /\ remaining_cards' = g.remaining_cards
    /\ game_stack' = g.game_stack

(***************************************************************************)
(* Game._start_discard_with_valid_card: one iteration of its loop.         *)
(***************************************************************************)
\* an opening draw-two sets the obligation and leaves the turn where it is
start_effects_turn_stays(g, card) ==
    IF card.value = "skip" THEN advance_turn(g, 2)
    ELSE IF card.value = "reverse"
    THEN IF Len(g.players_list) = 2 THEN advance_turn(g, 2)
         ELSE [g EXCEPT !.direction = -1 * @]
    ELSE IF card.value = "draw-two"
    THEN [g EXCEPT !.pending_draw_count = 2,
                   !.pending_draw_for_index = next_index(g, 1)]
    ELSE g

start_effects(g, card) ==
    IF card.value = "skip" THEN advance_turn(g, 2)
    ELSE IF card.value = "reverse"
    THEN IF Len(g.players_list) = 2 THEN advance_turn(g, 2)
         ELSE [g EXCEPT !.direction = -1 * @]
    ELSE IF card.value = "draw-two"
    THEN advance_turn([g EXCEPT !.pending_draw_count = 2,
                                !.pending_draw_for_index = next_index(g, 1)], 1)
    ELSE g

\* the first card drawn opens the discard stack, a draw-four too
start_discard_step_any_card(g, k, color) ==
    LET card == Last(g.remaining_cards)
        placed == [g EXCEPT !.remaining_cards = Front(@),
                            !.game_stack = Append(@, card),
                            !.current_color =
                               IF is_black(card) THEN color ELSE card.color]
    IN  [g |-> start_effects(placed, card), done |-> TRUE]

\* k is the outcome of random.shuffle, color that of random.choice
start_discard_step(g, k, color) ==
    LET card == Last(g.remaining_cards)
        popped == [g EXCEPT !.remaining_cards = Front(@)]
    IN  IF is_draw_four(card)
        THEN [g |-> [popped EXCEPT
                        !.remaining_cards = Shuffle(<<card>> \o @, k)],
              done |-> FALSE]
        ELSE LET placed == [popped EXCEPT
                              !.game_stack = Append(@, card),
                              !.current_color =
                                 IF is_black(card) THEN color ELSE card.color]
             IN  [g |-> start_effects(placed, card), done |-> TRUE]

StartDiscard ==
    /\ phase = "start_discard"
    /\ remaining_cards # <<>>
    /\ \E k \in ShuffleChoices, color \in ColorSet :
          LET r == start_discard_step(Game, k, color)
          IN  /\ SetGame(r.g)
              /\ phase' = IF r.done THEN "ready" ELSE "start_discard"
    /\ UNCHANGED <<hand_size, last, game_over_calls, moves, roomVars>>

(***************************************************************************)
(* Game.draw                                                               *)
(***************************************************************************)
\* validate_players is left out: only the seat lookup can fail
EntryFault_unvalidated(g) ==
    IF g.current_index >= Len(g.players_list) THEN "IndexError" ELSE ""

\* validate_players, then players_list[current_index]: the exception raised
\* before anything else, or "" when there is none
EntryFault(g) ==
    IF Cardinality(g.players) < MIN_PLAYERS_ALLOWED THEN "insufficient players"
    ELSE IF g.current_index >= Len(g.players_list) THEN "IndexError"
    ELSE ""

\* the gate lets every caller through
wrong_turn_never(g, player_id) == FALSE

\* the turn gate of draw and play
wrong_turn(g, player_id) ==
    player_id # PlayerId(g.players_list[g.current_index + 1])

\* a pending draw penalty is never seen
penalty_pending_never(g) == FALSE

\* a pending draw penalty targets the current seat
penalty_pending(g) ==
    g.pending_draw_count > 0 /\ g.pending_draw_for_index = g.current_index

\* the paid-off obligation is cleared and the turn stays where it is
count_down_keeps_turn(g) ==
    LET g3 == [g EXCEPT !.pending_draw_count = @ - 1]
    IN  IF g3.pending_draw_count <= 0
        THEN [g3 EXCEPT !.pending_draw_count = 0,
                        !.pending_draw_for_index = NoIndex]
        ELSE g3

\* a draw under a pending penalty: the countdown, and the turn advance when
\* the penalty is satisfied
count_down(g) ==
    LET g3 == [g EXCEPT !.pending_draw_count = @ - 1]
    IN  IF g3.pending_draw_count <= 0
        THEN advance_turn([g3 EXCEPT !.pending_draw_count = 0,
                                     !.pending_draw_for_index = NoIndex], 1)
        ELSE g3

\* the turn passes after every voluntary draw
pass_always(g, new_card) == advance_turn(g, 1)

\* a voluntary draw: the turn passes when the drawn card cannot be played
pass_if_unplayable(g, new_card) ==
    IF ~can_play_card(g, new_card, get_top_card(g)) THEN advance_turn(g, 1) ELSE g

draw(g, player_id, k) ==
    IF EntryFault(g) # "" THEN Result(g, EntryFault(g))
    ELSE
    LET current_player == g.players_list[g.current_index + 1] IN
    IF wrong_turn(g, player_id) THEN Result(g, "not your turn")
    ELSE
    LET g1 == IF g.remaining_cards = <<>> THEN transfer_played_cards(g, k) ELSE g IN
    IF g1.remaining_cards = <<>> THEN Result(g1, "deck is empty!")
    ELSE
    LET new_card == Last(g1.remaining_cards)
        g2 == take_card(g1, current_player)
    IN  IF penalty_pending(g2)
        THEN Result(count_down(g2), "ok")
        ELSE Result(pass_if_unplayable(g2, new_card), "ok")

\* a call's effect on the variables; at most bound calls change the game
ApplyWithin(op, r, bound) ==
    /\ (r.g # Game) => moves < bound
    /\ SetGame(r.g)
    /\ last' = [op |-> op, outcome |-> r.outcome, penalty |-> r.penalty,
                won |-> r.won, score |-> r.score, winner |-> r.winner]
    /\ game_over_calls' =
          IF r.won THEN Append(game_over_calls, <<"won", r.winner>>)
          ELSE game_over_calls
    /\ moves' = IF r.g # Game THEN moves + 1 ELSE moves
    /\ UNCHANGED <<phase, hand_size, roomVars>>

Apply(op, r) == ApplyWithin(op, r, MaxMoves)

\* player_id is the id of the player whose turn it is
IsCurrent(player_id) ==
    /\ current_index < Len(players_list)
    /\ PlayerId(players_list[current_index + 1]) = player_id

\* random.shuffle runs only inside transfer_played_cards, which a call that
\* needs n cards reaches only when fewer are left in the draw pile; it has more
\* than one outcome only when at least two cards are recycled
ShuffleChoicesFor(n, recycled) ==
    IF Len(remaining_cards) < n /\ recycled >= 2 THEN ShuffleChoices ELSE {0}

DrawShuffles == ShuffleChoicesFor(1, Len(game_stack) - 1)

DrawWithin(player_id, bound) ==
    /\ phase = "ready"
    /\ \E k \in DrawShuffles : ApplyWithin("draw", draw(Game, player_id, k), bound)

Draw(player_id) == DrawWithin(player_id, MaxMoves)

(***************************************************************************)
(* Game.play                                                               *)
(***************************************************************************)
\* a reverse flips the direction whatever the number of players
play_effects_always_flips(g, card) ==
    IF card.value = "skip" THEN advance_turn(g, 2)
    ELSE IF card.value = "reverse"
    THEN advance_turn([g EXCEPT !.direction = -1 * @], 1)
    ELSE IF card.value = "draw-two"
    THEN advance_turn([g EXCEPT !.pending_draw_count = 2,
                                !.pending_draw_for_index = next_index(g, 1)], 1)
    ELSE IF is_draw_four(card)
    THEN advance_turn([g EXCEPT !.pending_draw_count = 4,
                                !.pending_draw_for_index = next_index(g, 1)], 1)
    ELSE advance_turn(g, 1)

\* the action effects of a played card, then the turn advance
play_effects(g, card) ==
    IF card.value = "skip" THEN advance_turn(g, 2)
    ELSE IF card.value = "reverse"
    THEN IF Len(g.players_list) = 2 THEN advance_turn(g, 2)
         ELSE advance_turn([g EXCEPT !.direction = -1 * @], 1)
    ELSE IF card.value = "draw-two"
    THEN advance_turn([g EXCEPT !.pending_draw_count = 2,
                                !.pending_draw_for_index = next_index(g, 1)], 1)
    ELSE IF is_draw_four(card)
    THEN advance_turn([g EXCEPT !.pending_draw_count = 4,
                                !.pending_draw_for_index = next_index(g, 1)], 1)
    ELSE advance_turn(g, 1)

\* the draw-four check finds no card of the current colour
holds_current_color_never(g, player_cards) == FALSE

\* the draw-four check of play
holds_current_color(g, player_cards) ==
    /\ g.current_color # NoColor
    /\ \E i \in 1..Len(player_cards) :
          /\ ~is_black(player_cards[i])
          /\ player_cards[i].color = g.current_color

\* the UNO penalty falls due whether or not UNO was called
uno_penalty_due_always(player_cards, uno_called) == Len(player_cards) = 1

\* the UNO penalty is due: one card left and UNO not called
uno_penalty_due(player_cards, uno_called) ==
    Len(player_cards) = 1 /\ ~uno_called

\* the colour of the card, whatever was chosen
new_color_of_card(card, chosen_color) == card.color

\* the current colour after a card is placed
new_color(card, chosen_color) ==
    IF is_black(card) THEN chosen_color ELSE card.color

\* play from the removal of the card from the hand on
play_commit(g, player, idx, card, chosen_color, uno_called, k) ==
    LET g1 == [g EXCEPT !.hands[player] = RemoveAt(@, idx),
                        !.game_stack = Append(@, card)]
    IN  IF is_black(card) /\ chosen_color \notin ColorSet
        THEN Result(g1, "please choose a color")
        ELSE
        LET g2 == [g1 EXCEPT !.current_color = new_color(card, chosen_color)]
            penalised == uno_penalty_due(g2.hands[player], uno_called)
            g3 == IF penalised THEN draw_n(g2, player, 2, k) ELSE g2
        IN  IF Len(g3.hands[player]) = 0
            THEN [g |-> g3, outcome |-> "won", penalty |-> penalised, won |-> TRUE,
                  score |-> calculate_score(g3, player), winner |-> player]
            ELSE [g |-> play_effects(g3, card), outcome |-> "ok",
                  penalty |-> penalised, won |-> FALSE, score |-> 0, winner |-> ""]

play(g, player_id, card_id, chosen_color, uno_called, k) ==
    IF EntryFault(g) # "" THEN Result(g, EntryFault(g))
    ELSE
    LET current_player == g.players_list[g.current_index + 1] IN
    IF wrong_turn(g, player_id) THEN Result(g, "not your turn")
    ELSE IF penalty_pending(g) THEN Result(g, "must draw before playing")
    ELSE
    LET player_cards == g.hands[current_player]
        idx == find_object_idx(player_cards, card_id)
    IN  IF idx = 0 THEN Result(g, "ValueError")
        ELSE
        LET card == player_cards[idx] IN
        IF ~can_play_card(g, card, get_top_card(g))
        THEN Result(g, "cannot play this card")
        ELSE IF is_draw_four(card) /\ holds_current_color(g, player_cards)
        THEN Result(g, "cannot play draw four")
        ELSE play_commit(g, current_player, idx, card, chosen_color, uno_called, k)

\* the cards of a hand a caller offers to play: the first MaxOffer and the last
Offered(cards) ==
    {CardId(cards[i]) : i \in {j \in 1..Len(cards) : j <= MaxOffer \/ j = Len(cards)}}

TopId == IF game_stack = <<>> THEN {} ELSE {CardId(get_top_card(Game))}

\* the card ids a caller offers to play: the player whose turn it is offers
\* cards it holds and the top card (which it may not hold); a caller out of
\* turn is turned away whatever it offers, and offers the top card
CardInputs(player_id) ==
    IF IsCurrent(player_id)
    THEN TopId \cup Offered(hands[players_list[current_index + 1]])
    ELSE TopId

UnoInputs(player_id) == IF IsCurrent(player_id) THEN BOOLEAN ELSE {FALSE}

\* chosen_color: absent, or one of the colours; offered with black cards only
\* (play reads it for no other card)
ChosenColors(card_id) ==
    IF card_id[2] = "black" THEN ColorSet \cup {NoColor} ELSE {NoColor}

\* play draws cards (two, for the UNO penalty) only for the player whose turn
\* it is when it holds two cards
PlayShuffles(player_id) ==
    IF IsCurrent(player_id) /\ Len(hands[players_list[current_index + 1]]) = 2
    THEN ShuffleChoicesFor(2, Len(game_stack))
    ELSE {0}

PlayWithin(player_id, card_id, chosen_color, uno_called, bound) ==
    /\ phase = "ready"
    /\ \E k \in PlayShuffles(player_id) :
          ApplyWithin("play",
                      play(Game, player_id, card_id, chosen_color, uno_called, k),
                      bound)

Play(player_id, card_id, chosen_color, uno_called) ==
    PlayWithin(player_id, card_id, chosen_color, uno_called, MaxMoves)

(***************************************************************************)
(* Game.remove_player                                                      *)
(***************************************************************************)
remove_player(g, player) ==
    IF player \notin g.players THEN Result(g, "KeyError")
    ELSE Result([g EXCEPT !.players = @ \ {player},
                          !.players_list = SelectSeq(@, LAMBDA p : p # player)],
                "ok")

RemovePlayerWithin(player, bound) ==
    /\ phase = "ready"
    /\ ApplyWithin("remove_player", remove_player(Game, player), bound)

RemovePlayer(player) == RemovePlayerWithin(player, MaxMoves)

Next ==
    \/ StartDiscard
    \/ \E p \in PlayerIds : Draw(p)
    \/ \E p \in PlayerIds :
          \E c \in CardInputs(p), u \in UnoInputs(p) :
             \E col \in ChosenColors(c) : Play(p, c, col, u)
    \/ \E p \in Names : RemovePlayer(p)

Spec == Init /\ [][Next]_vars

(***************************************************************************)
(* Game.get_state: reads the game; it fails as draw and play do, and on a  *)
(* pending index that names no seat.                                       *)
(***************************************************************************)
get_state(g) ==
    IF EntryFault(g) # "" THEN Result(g, EntryFault(g))
    ELSE IF /\ g.pending_draw_for_index # NoIndex
            /\ g.pending_draw_for_index >= Len(g.players_list)
    THEN Result(g, "IndexError")
    ELSE Result(g, "ok")

GetState ==
    /\ phase = "ready"
    /\ Apply("get_state", get_state(Game))

\* the game with its observer: get_state is called between the other calls
NextObserved ==
    \/ Next
    \/ GetState

SpecObserved == Init /\ [][NextObserved]_vars

(***************************************************************************)
(* The game played until the draw pile runs out: two players are dealt 53  *)
(* cards each, which leaves the opening discard and one card to draw, and  *)
(* one more call may change the game, so that a draw finds the pile empty  *)
(* under a discard stack of three cards.                                   *)
(***************************************************************************)
RecycleTables == {<<2, 53>>}

RecycleMoves == MaxMoves + 1

InitRecycle == InitOf(DeckOrders, RecycleTables)

NextRecycle ==
    \/ StartDiscard
    \/ \E p \in PlayerIds : DrawWithin(p, RecycleMoves)
    \/ \E p \in PlayerIds :
          \E c \in CardInputs(p), u \in UnoInputs(p) :
             \E col \in ChosenColors(c) : PlayWithin(p, c, col, u, RecycleMoves)
    \/ \E p \in Names : RemovePlayerWithin(p, RecycleMoves)

SpecRecycle == InitRecycle /\ [][NextRecycle]_vars

(***************************************************************************)
(* State (server/lib/state.py): the room's stored player set and the join  *)
(* requests made to it.  A request calls allow_player and, when that       *)
(* returns (True, None), add_player_to_room; each SQL statement is a step  *)
(* of its own, and the steps of different requests interleave.             *)
(***************************************************************************)
\* the names allow_player turns away for the white space in them
SpacedNames == {"a b"}

RoomActions == {"Create", "Join"}

\* State.get_players_by_room: the stored set, or the empty set without a row
get_players_by_room(row) == IF row = <<>> THEN {} ELSE row[1]

\* State._exists_players
exists_players(row) == row # <<>>

\* allow_player before it reads the game and the players: the reason it
\* returns with False, or "" when it goes on
allow_player_entry(action, room, name, row) ==
    IF name = "" THEN "name cannot be blank"
    ELSE IF name \in SpacedNames THEN "name should not contain white spaces"
    ELSE IF room = "" THEN "room should not be empty"
    ELSE IF action = "Join" /\ ~exists_players(row)
    THEN "cannot join game, room does not exist"
    ELSE ""

\* allow_player from the size test on: the reason, or "" for (True, None)
allow_player_verdict(name, started, stored) ==
    IF Cardinality(stored) = MAX_PLAYERS_ALLOWED THEN "room is full"
    ELSE IF started
    THEN IF name \notin stored THEN "game has already started" ELSE ""
    ELSE IF name \in stored THEN "name is already taken" ELSE ""

\* the game variables of a server on which no game is constructed
NoGame ==
    /\ hands = <<>>
    /\ players_list = <<>>
    /\ players = {}
    /\ current_index = 0
    /\ direction = 1
    /\ current_color = NoColor
    /\ pending_draw_count = 0
    /\ pending_draw_for_index = NoIndex
    /\ remaining_cards = <<>>
    /\ game_stack = <<>>
    /\ phase = "no_game"
    /\ hand_size = 0
    /\ last = [op |-> "init", outcome |-> "ok", penalty |-> FALSE,
               won |-> FALSE, score |-> 0, winner |-> ""]
    /\ game_over_calls = <<>>
    /\ moves = 0

gameSide == <<gameVars, phase, hand_size, last, game_over_calls, moves>>

InitRoom == NoGame /\ RoomInit

\* allow_player up to the look-up of the room (for "Join")
CheckRoom(i) ==
    /\ requests[i].pc = "idle"
    /\ \E action \in RoomActions :
          LET reason == allow_player_entry(action, "room", RequestName(i), players_row)
          IN  requests' = [requests EXCEPT
                              ![i].action = action,
                              ![i].verdict = reason,
                              ![i].pc = IF reason = "" THEN "read_game" ELSE "done"]
    /\ UNCHANGED <<players_row, games_row, gameSide>>

\* allow_player: started = bool(get_game_by_room(room))
ReadGame(i) ==
    /\ requests[i].pc = "read_game"
    /\ requests' = [requests EXCEPT ![i].started = games_row,
                                    ![i].pc = "read_players"]
    /\ UNCHANGED <<players_row, games_row, gameSide>>

\* allow_player: players = get_players_by_room(room), and the tests on it
ReadPlayers(i) ==
    /\ requests[i].pc = "read_players"
    /\ LET reason == allow_player_verdict(RequestName(i), requests[i].started,
                                          get_players_by_room(players_row))
       IN  requests' = [requests EXCEPT
                           ![i].verdict = reason,
                           ![i].pc = IF reason = "" THEN "allowed" ELSE "done"]
    /\ UNCHANGED <<players_row, games_row, gameSide>>

\* add_player_to_room: players = get_players_by_room(room); players.add(player)
AddRead(i) ==
    /\ requests[i].pc = "allowed"
    /\ requests' = [requests EXCEPT
                       ![i].players = get_players_by_room(players_row)
                                         \cup {RequestName(i)},
                       ![i].pc = "adding"]
    /\ UNCHANGED <<players_row, games_row, gameSide>>

\* add_player_to_room: REPLACE INTO players, commit
AddWrite(i) ==
    /\ requests[i].pc = "adding"
    /\ players_row' = <<requests[i].players>>
    /\ requests' = [requests EXCEPT ![i].pc = "done"]
    /\ UNCHANGED <<games_row, gameSide>>

\* add_game_to_room, once a Game can be constructed of the stored players
AddGame ==
    /\ ~games_row
    /\ Cardinality(get_players_by_room(players_row)) >= MIN_PLAYERS_ALLOWED
    /\ games_row' = TRUE
    /\ UNCHANGED <<players_row, requests, gameSide>>

NextRoom ==
    \/ \E i \in Requests : CheckRoom(i)
    \/ \E i \in Requests : ReadGame(i)
    \/ \E i \in Requests : ReadPlayers(i)
    \/ \E i \in Requests : AddRead(i)
    \/ \E i \in Requests : AddWrite(i)
    \/ AddGame

SpecRoom == InitRoom /\ [][NextRoom]_vars

(***************************************************************************)
(* Vocabulary of the properties: the calls a state is examined under, and  *)
(* the rules as the specification words them.                              *)
(***************************************************************************)
\* the card ids calls are examined with: the offered cards of every hand, and
\* the top card
ExaminedIds == TopId \cup UNION {Offered(hands[q]) : q \in DOMAIN hands}

ExaminedColors(card_id) ==
    IF card_id[2] = "black" THEN ColorSet \cup {NoColor, "black"} ELSE {NoColor}

BadColors == {NoColor, "black"}

\* the game can be acted on: constructed, enough players, a seat to act
Live == phase = "ready" /\ EntryFault(Game) = ""

Actor == players_list[current_index + 1]

Obligated == pending_draw_count > 0 /\ pending_draw_for_index = current_index

\* the card of the actor's hand a card id names, as a set (empty: not held)
Held(card_id) ==
    {hands[Actor][i] : i \in {j \in 1..Len(hands[Actor]) :
                                 CardId(hands[Actor][j]) = card_id}}

\* playable, in the words of the rules (current_color being set)
Playable(card) ==
    \/ card.color = "black"
    \/ card.color = current_color
    \/ card.value = Last(game_stack).value

\* the actor holds a non-black card of the active colour
HoldsActiveColor ==
    \E i \in 1..Len(hands[Actor]) :
        /\ hands[Actor][i].color # "black"
        /\ hands[Actor][i].color = current_color

\* the seat a number of steps ahead in a direction
SeatAhead(steps, dir) == (current_index + steps * dir) % Len(players_list)

SameGame(g) == g = Game

TotalInHands(h) ==
    LET RECURSIVE Sum(_)
        Sum(S) == IF S = {} THEN 0
                  ELSE LET p == CHOOSE q \in S : TRUE
                       IN  Len(h[p]) + Sum(S \ {p})
    IN  Sum(DOMAIN h)

(***************************************************************************)
(* C1  Card conservation: in every state reachable from construction by    *)
(* draw and play calls, accepted or rejected, recycling and UNO-penalty    *)
(* draws included, draw pile + discard stack + all hands hold 108 cards.   *)
(***************************************************************************)
C1_CardConservation ==
    Len(remaining_cards) + Len(game_stack) + TotalInHands(hands) = 108

\* a draw has recycled the discard stack: after three changing calls of a
\* game dealt 53 cards each, the pile is empty again under a single discard
C1_Witness ==
    /\ hand_size = 53
    /\ moves = 3
    /\ last.op = "draw" /\ last.outcome = "ok"
    /\ remaining_cards = <<>>
    /\ Len(game_stack) = 1
    /\ Len(players_list) = 2

(***************************************************************************)
(* C2  A play by the current seat, no obligation pending, of a black card  *)
(* that passes the legality checks, with chosen_color missing or not one   *)
(* of the four colours, is rejected and leaves the game as it was.         *)
(***************************************************************************)
C2_BlackWithoutColorChangesNothing ==
    Live /\ ~Obligated =>
        \A c \in Offered(hands[Actor]), col \in BadColors, u \in BOOLEAN,
           k \in ShuffleChoices :
            \A card \in Held(c) :
                (/\ card.color = "black"
                 /\ Playable(card)
                 /\ ~(card.value = "draw-four" /\ HoldsActiveColor))
                => LET r == play(Game, PlayerId(Actor), c, col, u, k)
                   IN  /\ r.outcome = "please choose a color"
                       /\ SameGame(r.g)

(***************************************************************************)
(* C3  Turn gating: a draw or play call whose player_id is not the id of   *)
(* the player at players_list[current_index] is rejected and leaves the    *)
(* game unchanged.                                                         *)
(***************************************************************************)
C3_TurnGating ==
    phase = "ready" =>
        \A p \in PlayerIds :
            ~IsCurrent(p) =>
                /\ \A k \in ShuffleChoices :
                      LET r == draw(Game, p, k)
                      IN  /\ SameGame(r.g)
                          /\ r.outcome \in
                               {"not your turn", "insufficient players", "IndexError"}
                /\ \A c \in ExaminedIds, u \in BOOLEAN, k \in PlayShuffles(p) :
                      \A col \in ExaminedColors(c) :
                          LET r == play(Game, p, c, col, u, k)
                          IN  /\ SameGame(r.g)
                              /\ r.outcome \in
                                   {"not your turn", "insufficient players",
                                    "IndexError"}
                              /\ ~r.won

\* a player out of turn has called play after the game moved on, and was
\* turned away
C3_Witness ==
    /\ last.op = "play"
    /\ last.outcome = "not your turn"
    /\ moves >= 1

(***************************************************************************)
(* C4  A successful, non-winning play of a draw-two (draw-four) sets       *)
(* pending_draw_count to 2 (4), pending_draw_for_index to the seat one     *)
(* step ahead in the current direction, and current_index to that seat;    *)
(* from then on every play by that seat is rejected with no change, and    *)
(* only its draw calls bring the obligation down, one card at a time.      *)
(***************************************************************************)
C4_SetsObligation ==
    Live /\ ~Obligated =>
        \A c \in Offered(hands[Actor]), u \in BOOLEAN,
           k \in PlayShuffles(PlayerId(Actor)) :
            \A col \in ExaminedColors(c), card \in Held(c) :
                LET r == play(Game, PlayerId(Actor), c, col, u, k)
                IN  (r.outcome = "ok" /\ card.value \in {"draw-two", "draw-four"})
                    => /\ r.g.pending_draw_count =
                             (IF card.value = "draw-two" THEN 2 ELSE 4)
                       /\ r.g.pending_draw_for_index = SeatAhead(1, direction)
                       /\ r.g.current_index = SeatAhead(1, direction)

C4_ObligatedSeatCannotPlay ==
    phase = "ready" /\ Obligated =>
        \A p \in PlayerIds, c \in ExaminedIds, u \in BOOLEAN :
          \A k \in PlayShuffles(p) :
            \A col \in ExaminedColors(c) :
                LET r == play(Game, p, c, col, u, k)
                IN  SameGame(r.g) /\ ~r.won /\ r.outcome # "ok"

C4_OnlyDrawsPayOff ==
    pending_draw_count > 0 =>
        \/ /\ pending_draw_count' = pending_draw_count
           /\ pending_draw_for_index' = pending_draw_for_index
           /\ current_index' = current_index
        \/ /\ last'.op = "draw"
           /\ pending_draw_count' = pending_draw_count - 1

C4_PendingDraw ==
    /\ [](C4_SetsObligation /\ C4_ObligatedSeatCannotPlay)
    /\ [][C4_OnlyDrawsPayOff]_vars

\* a draw-four was played, and the seat it obliges has called play since
C4_Witness ==
    /\ pending_draw_count = 4
    /\ pending_draw_for_index = current_index
    /\ last.op = "play"
    /\ last.outcome = "must draw before playing"

(***************************************************************************)
(* C5  A play by the current seat of a card it holds that is not playable  *)
(* is rejected with no change; a play is accepted, and a card reaches the  *)
(* discard stack through play, only if the card is black, or of the        *)
(* current colour, or of the value of the top card.                        *)
(***************************************************************************)
C5_OnlyPlayableCards ==
    Live /\ current_color # NoColor =>
        \A c \in Offered(hands[Actor]), u \in BOOLEAN,
           k \in PlayShuffles(PlayerId(Actor)) :
            \A col \in ExaminedColors(c), card \in Held(c) :
                LET r == play(Game, PlayerId(Actor), c, col, u, k)
                IN  /\ ~Playable(card) =>
                          /\ SameGame(r.g)
                          /\ r.outcome \in {"cannot play this card",
                                            "must draw before playing"}
                    /\ (r.outcome \in {"ok", "won"}
                           \/ r.g.game_stack # game_stack) =>
                          /\ Playable(card)
                          /\ r.g.game_stack = Append(game_stack, card)

\* the current seat offered a card it holds that cannot be played
C5_Witness ==
    /\ last.op = "play"
    /\ last.outcome = "cannot play this card"

(***************************************************************************)
(* C6  Draw-four restriction: a play of a draw-four by the current seat is *)
(* rejected with no change whenever the actor holds a non-black card of    *)
(* the current colour; a draw-four reaches the discard stack through play  *)
(* only when the actor held no card of the active colour.                  *)
(***************************************************************************)
C6_DrawFourRestriction ==
    Live =>
        \A c \in Offered(hands[Actor]), u \in BOOLEAN,
           k \in PlayShuffles(PlayerId(Actor)) :
            \A col \in ExaminedColors(c), card \in Held(c) :
                card.value = "draw-four" =>
                    LET r == play(Game, PlayerId(Actor), c, col, u, k)
                    IN  /\ HoldsActiveColor =>
                              /\ SameGame(r.g)
                              /\ r.outcome \in {"cannot play draw four",
                                                "must draw before playing"}
                        /\ r.g.game_stack # game_stack => ~HoldsActiveColor

\* the current seat offered a draw-four while holding the active colour
C6_Witness ==
    /\ last.op = "play"
    /\ last.outcome = "cannot play draw four"

(***************************************************************************)
(* C7  Playing the last card ends the game: when a successful play leaves  *)
(* the actor's hand empty, on_game_over(WON, actor) is invoked and         *)
(* current_index, direction and the pending-draw fields stay as they were; *)
(* over any sequence of operations on_game_over(WON, ...) fires once.      *)
(***************************************************************************)
C7_LastCardWins ==
    Live /\ ~Obligated =>
        \A c \in Offered(hands[Actor]), u \in BOOLEAN,
           k \in PlayShuffles(PlayerId(Actor)) :
            \A col \in ExaminedColors(c) :
                LET r == play(Game, PlayerId(Actor), c, col, u, k)
                IN  (r.outcome \in {"ok", "won"} /\ r.g.hands[Actor] = <<>>)
                    => /\ r.won /\ r.winner = Actor
                       /\ r.g.current_index = current_index
                       /\ r.g.direction = direction
                       /\ r.g.pending_draw_count = pending_draw_count
                       /\ r.g.pending_draw_for_index = pending_draw_for_index

C7_GameOverFiresOnce ==
    /\ C7_LastCardWins
    /\ Len(game_over_calls) <= 1

(***************************************************************************)
(* C8  UNO penalty: a successful play that leaves the actor one card with  *)
(* uno_called false moves 2 cards from the draw pile (recycled from the    *)
(* discard stack below its top when empty) into the actor's hand, fewer    *)
(* only if pile and recyclable discard are exhausted; the game does not    *)
(* end, and the card's action effect and the turn advance still apply.     *)
(* With uno_called true the hand stays at 1 card.                          *)
(***************************************************************************)
\* the turn fields after the action effect of a card, in the words of the rules
TurnAfter(card) ==
    LET n == Len(players_list) IN
    IF card.value = "skip"
    THEN [current_index |-> SeatAhead(2, direction), direction |-> direction,
          pending_draw_count |-> pending_draw_count,
          pending_draw_for_index |-> pending_draw_for_index]
    ELSE IF card.value = "reverse"
    THEN IF n = 2
         THEN [current_index |-> SeatAhead(2, direction), direction |-> direction,
               pending_draw_count |-> pending_draw_count,
               pending_draw_for_index |-> pending_draw_for_index]
         ELSE [current_index |-> SeatAhead(1, -direction), direction |-> -direction,
               pending_draw_count |-> pending_draw_count,
               pending_draw_for_index |-> pending_draw_for_index]
    ELSE IF card.value \in {"draw-two", "draw-four"}
    THEN [current_index |-> SeatAhead(1, direction), direction |-> direction,
          pending_draw_count |-> IF card.value = "draw-two" THEN 2 ELSE 4,
          pending_draw_for_index |-> SeatAhead(1, direction)]
    ELSE [current_index |-> SeatAhead(1, direction), direction |-> direction,
          pending_draw_count |-> pending_draw_count,
          pending_draw_for_index |-> pending_draw_for_index]

TurnOf(g) ==
    [current_index |-> g.current_index, direction |-> g.direction,
     pending_draw_count |-> g.pending_draw_count,
     pending_draw_for_index |-> g.pending_draw_for_index]

C9_Reverse ==
    Live /\ ~Obligated =>
        \A c \in Offered(hands[Actor]), u \in BOOLEAN,
           k \in PlayShuffles(PlayerId(Actor)) :
            \A col \in ExaminedColors(c), card \in Held(c) :
                LET r == play(Game, PlayerId(Actor), c, col, u, k)
                IN  (r.outcome = "ok" /\ card.value = "reverse") =>
                       IF Len(players_list) = 2
                       THEN /\ r.g.current_index = SeatAhead(2, direction)
                            /\ r.g.current_index = current_index
                            /\ r.g.direction = direction
                       ELSE /\ r.g.direction = -direction
                            /\ r.g.current_index = SeatAhead(1, -direction)

\* a reverse was played among three players: the direction is now -1
C9_Witness ==
    /\ last.op = "play" /\ last.outcome = "ok"
    /\ Last(game_stack).value = "reverse"
    /\ Len(players_list) = 3
    /\ direction = -1

\* a reverse was played between two players, and the same seat acts again
C9_WitnessTwoPlayers ==
    /\ last.op = "play" /\ last.outcome = "ok"
    /\ Last(game_stack).value = "reverse"
    /\ Len(players_list) = 2 /\ Cardinality(DOMAIN hands) = 2
    /\ direction = 1
    /\ moves <= 2

(***************************************************************************)
(* C10  Post-construction state: for n >= 2 players and n * hand_size <    *)
(* 108, right after construction every hand holds hand_size cards, the     *)
(* discard stack holds one card, which is not a draw-four, and the draw    *)
(* pile holds 108 - 1 - n * hand_size cards (93 for 2 players, 7 cards).   *)
(***************************************************************************)
C10_PostConstruction ==
    (phase = "ready" /\ moves = 0) =>
        /\ DOMAIN hands = players
        /\ \A p \in players : Len(hands[p]) = hand_size
        /\ TotalInHands(hands) = Len(players_list) * hand_size
        /\ Len(game_stack) = 1
        /\ game_stack[1].value # "draw-four"
        /\ Len(remaining_cards) = 108 - 1 - Len(players_list) * hand_size

\* two players were dealt seven cards each, and 93 cards are left to draw
C10_Witness ==
    /\ phase = "ready" /\ moves = 0
    /\ Len(players_list) = 2
    /\ hand_size = 7
    /\ Len(remaining_cards) = 93
    /\ Len(game_stack) = 1

(***************************************************************************)
(* C11  Turn pointer range: in every state after construction, states      *)
(* reached after remove_player and after turn advancement with direction   *)
(* -1 included, 0 <= current_index < |players_list|.                       *)
(***************************************************************************)
C11_TurnPointerRange ==
    phase = "ready" =>
        /\ 0 <= current_index
        /\ current_index < Len(players_list)

(***************************************************************************)
(* C12  Pending-obligation invariant: in every state after construction,   *)
(* pending_draw_for_index is set iff pending_draw_count > 0; when set, the *)
(* count is between 1 and 4, the index is a valid seat index, and it       *)
(* equals current_index.                                                   *)
(***************************************************************************)
C12_PendingObligation ==
    phase = "ready" =>
        /\ (pending_draw_for_index # NoIndex) <=> (pending_draw_count > 0)
        /\ pending_draw_for_index # NoIndex =>
              /\ pending_draw_count \in 1..4
              /\ pending_draw_for_index \in 0..(Len(players_list) - 1)
              /\ pending_draw_for_index = current_index

(***************************************************************************)
(* C13  Insufficient players: once fewer than 2 players are left (through  *)
(* remove_player), every later draw, play and get_state call raises the    *)
(* insufficient-players error to its caller and leaves the game unchanged. *)
(***************************************************************************)
\* the outcomes that are exceptions raised to the caller; the others are "ok"
\* or texts handed to the notification sink
Raised == {"insufficient players", "IndexError", "ValueError", "KeyError"}

TooFewPlayers == Cardinality(players) < 2

C13_EveryCallFails ==
    phase = "ready" /\ TooFewPlayers =>
        /\ \A p \in PlayerIds, k \in ShuffleChoices :
              LET r == draw(Game, p, k)
              IN  /\ r.outcome = "insufficient players" /\ r.outcome \in Raised
                  /\ SameGame(r.g)
        /\ \A p \in PlayerIds, c \in ExaminedIds, u \in BOOLEAN, k \in ShuffleChoices :
              \A col \in ExaminedColors(c) :
                  LET r == play(Game, p, c, col, u, k)
                  IN  /\ r.outcome = "insufficient players" /\ r.outcome \in Raised
                      /\ ~r.won
                      /\ SameGame(r.g)
        /\ LET r == get_state(Game)
           IN  /\ r.outcome = "insufficient players" /\ r.outcome \in Raised
               /\ SameGame(r.g)

\* no call brings a player back, and no call changes the game from then on
C13_NoWayBack ==
    TooFewPlayers /\ last'.op # "remove_player" =>
        /\ TooFewPlayers'
        /\ gameVars' = gameVars
        /\ last'.outcome = "insufficient players"

C13_InsufficientPlayers ==
    /\ []C13_EveryCallFails
    /\ [][C13_NoWayBack]_vars

\* one player is left, and get_state was called and failed
C13_Witness ==
    /\ Cardinality(players) = 1
    /\ last.op = "get_state"
    /\ last.outcome = "insufficient players"

(***************************************************************************)
(* C14  Scoring: the score reported when a player wins is the sum, over    *)
(* the cards in the hands of all other seats, of the numeric value of a    *)
(* digit card, 20 for a draw-two, reverse or skip, and 50 for a black      *)
(* card; the winner's own hand contributes nothing.                        *)
(***************************************************************************)
\* the digit values in order: the card with value DigitNames[d + 1] counts d
DigitNames == <<"0", "1", "2", "3", "4", "5", "6", "7", "8", "9">>

\* the number of cards of a hand that satisfy a test
HowMany(cards, Test(_)) == Cardinality({i \in 1..Len(cards) : Test(cards[i])})

\* the points of a hand by the scoring rule, counted kind by kind
RulePoints(cards) ==
    LET RECURSIVE DigitPoints(_)
        DigitPoints(d) ==
            IF d > 9 THEN 0
            ELSE d * Cardinality({i \in 1..Len(cards) :
                                     cards[i].value = DigitNames[d + 1]})
                 + DigitPoints(d + 1)
        IsAction(c) == c.value \in {"draw-two", "reverse", "skip"}
        IsBlack(c) == c.color = "black"
    IN  DigitPoints(0) + 20 * HowMany(cards, IsAction) + 50 * HowMany(cards, IsBlack)

\* the points of the hands of a set of seats
RECURSIVE RuleScore(_)
RuleScore(seats) ==
    IF seats = {} THEN 0
    ELSE LET p == CHOOSE q \in seats : TRUE
         IN  RulePoints(hands[p]) + RuleScore(seats \ {p})

C14_Scoring ==
    (last.op = "play" /\ last.won) =>
        /\ hands[last.winner] = <<>>
        /\ last.score = RuleScore({players_list[i] : i \in 1..Len(players_list)}
                                     \ {last.winner})

\* a player has won against hands that hold a digit card, an action card and
\* a black card
C14_Witness ==
    /\ last.op = "play" /\ last.won
    /\ last.score > 70
    /\ \E p \in players \ {last.winner} :
          /\ \E i \in 1..Len(hands[p]) : hands[p][i].color = "black"
          /\ \E i \in 1..Len(hands[p]) : hands[p][i].value \in Digits \ {"0"}
    /\ \E p \in players \ {last.winner} :
          \E i \in 1..Len(hands[p]) :
             hands[p][i].value \in {"draw-two", "reverse", "skip"}

(***************************************************************************)
(* C15  Obligation countdown: each successful draw by the seat that owes a *)
(* pending obligation adds one card to its hand and takes exactly 1 off    *)
(* pending_draw_count; current_index stays while the count is above zero;  *)
(* the draw that brings it to zero clears both pending fields and moves    *)
(* current_index one step in the current direction, whether or not the     *)
(* drawn card is playable.  So an obligation of 2 or 4 is paid by as many  *)
(* successful draws and costs the seat its turn.                           *)
(***************************************************************************)
C15_EachDraw ==
    Live /\ Obligated =>
        \A k \in DrawShuffles :
            LET r == draw(Game, PlayerId(Actor), k)
            IN  r.outcome = "ok" =>
                   /\ Len(r.g.hands[Actor]) = Len(hands[Actor]) + 1
                   /\ \A q \in DOMAIN hands \ {Actor} : r.g.hands[q] = hands[q]
                   /\ r.g.direction = direction
                   /\ IF pending_draw_count > 1
                      THEN /\ r.g.pending_draw_count = pending_draw_count - 1
                           /\ r.g.pending_draw_for_index = pending_draw_for_index
                           /\ r.g.current_index = current_index
                      ELSE /\ r.g.pending_draw_count = 0
                           /\ r.g.pending_draw_for_index = NoIndex
                           /\ r.g.current_index = SeatAhead(1, direction)

\* the count is 2 or 4 when set by a card and goes down by one per draw only
C15_CountsDown ==
    /\ (pending_draw_count = 0 /\ pending_draw_count' # 0) =>
          /\ pending_draw_count' \in {2, 4}
          /\ last'.op = "play" \/ phase = "start_discard"
    /\ (pending_draw_count # 0 /\ pending_draw_count' # pending_draw_count) =>
          /\ pending_draw_count' = pending_draw_count - 1
          /\ last'.op = "draw" /\ last'.outcome = "ok"

C15_ObligationCountdown ==
    /\ []C15_EachDraw
    /\ [][C15_CountsDown]_vars

\* an opening draw-two has been paid by two draws of the obliged seat, the
\* second of a playable card, and the turn is back with the other seat
C15_Witness ==
    /\ phase = "ready" /\ moves = 2
    /\ last.op = "draw" /\ last.outcome = "ok"
    /\ Len(game_stack) = 1 /\ Last(game_stack).value = "draw-two"
    /\ pending_draw_count = 0 /\ pending_draw_for_index = NoIndex
    /\ Len(players_list) = 2 /\ current_index = 0
    /\ Len(hands[players_list[2]]) = hand_size + 2
    /\ Playable(Last(hands[players_list[2]]))

(***************************************************************************)
(* C16  Voluntary draw: when the current seat draws with no pending        *)
(* obligation, exactly one card moves from the draw pile to its hand; if   *)
(* that card is not playable against the top card and current_color the    *)
(* turn advances by exactly one step, and if it is playable current_index  *)
(* is unchanged; direction, current_color and the pending fields are       *)
(* unchanged in both cases.                                                *)
(***************************************************************************)
\* what a voluntary draw of the current seat does to the game it returns
VoluntaryDrawMovesOneCard(r) ==
    LET new_card == Last(r.g.hands[Actor])
    IN  /\ r.outcome = "ok"
        /\ Len(r.g.hands[Actor]) = Len(hands[Actor]) + 1
        /\ Front(r.g.hands[Actor]) = hands[Actor]
        /\ \A q \in DOMAIN hands \ {Actor} : r.g.hands[q] = hands[q]
        /\ Len(r.g.remaining_cards) + Len(r.g.game_stack)
              = Len(remaining_cards) + Len(game_stack) - 1
        /\ remaining_cards # <<>> =>
              /\ new_card = Last(remaining_cards)
              /\ r.g.remaining_cards = Front(remaining_cards)
              /\ r.g.game_stack = game_stack
        /\ Last(r.g.game_stack) = Last(game_stack)
        /\ r.g.current_index =
              (IF Playable(new_card) THEN current_index ELSE SeatAhead(1, direction))
        /\ r.g.direction = direction
        /\ r.g.current_color = current_color
        /\ r.g.pending_draw_count = pending_draw_count
        /\ r.g.pending_draw_for_index = pending_draw_for_index

\* the claim as it is worded: for every draw of the current seat without an
\* obligation
C16_EveryVoluntaryDraw ==
    Live /\ pending_draw_count = 0 =>
        \A k \in DrawShuffles :
            VoluntaryDrawMovesOneCard(draw(Game, PlayerId(Actor), k))

(***************************************************************************)
(* C16 as amended: the same, for the draws made while the draw pile is not *)
(* empty or the discard stack holds more than its top card (otherwise the  *)
(* draw changes nothing).                                                  *)
(***************************************************************************)
C16_VoluntaryDraw ==
    (/\ Live /\ pending_draw_count = 0
     /\ (remaining_cards # <<>> \/ Len(game_stack) > 1)) =>
        \A k \in DrawShuffles :
            VoluntaryDrawMovesOneCard(draw(Game, PlayerId(Actor), k))

\* the first seat drew a playable card of its own accord and still has the turn
C16_Witness ==
    /\ phase = "ready" /\ moves = 1
    /\ last.op = "draw" /\ last.outcome = "ok"
    /\ pending_draw_count = 0
    /\ Len(players_list) = 2 /\ current_index = 0
    /\ Len(hands[players_list[1]]) = hand_size + 1
    /\ Len(game_stack) = 1 /\ ~(Last(game_stack).value \in {"skip", "reverse"})
    /\ Playable(Last(hands[players_list[1]]))

\* the first seat drew a card it cannot play, and the turn went to the next seat
C16_WitnessPassed ==
    /\ phase = "ready" /\ moves = 1
    /\ last.op = "draw" /\ last.outcome = "ok"
    /\ pending_draw_count = 0
    /\ Len(players_list) = 3 /\ current_index = 1 /\ direction = 1
    /\ Len(hands[players_list[1]]) = hand_size + 1
    /\ ~Playable(Last(hands[players_list[1]]))

(***************************************************************************)
(* C17  Recycling on draw: when the current seat draws while the draw pile *)
(* is empty and the discard stack holds more than one card, the discard    *)
(* stack afterwards is exactly its previous top card, and the new draw     *)
(* pile with the card drawn is a permutation of the previous discard stack *)
(* minus its top; when the pile is empty and the stack holds only its top, *)
(* draw warns and changes nothing, which happens only when all other cards *)
(* are in hands.                                                           *)
(***************************************************************************)
Occurrences(cards, c) == Cardinality({i \in 1..Len(cards) : cards[i] = c})

IsPermutation(a, b) ==
    /\ Len(a) = Len(b)
    /\ \A i \in 1..Len(a) : Occurrences(a, a[i]) = Occurrences(b, a[i])

C17_Recycles ==
    (Live /\ remaining_cards = <<>> /\ Len(game_stack) > 1) =>
        \A k \in DrawShuffles :
            LET r == draw(Game, PlayerId(Actor), k)
            IN  /\ r.outcome = "ok"
                /\ r.g.game_stack = <<Last(game_stack)>>
                /\ Front(r.g.hands[Actor]) = hands[Actor]
                /\ IsPermutation(Append(r.g.remaining_cards, Last(r.g.hands[Actor])),
                                 Front(game_stack))

C17_NothingToRecycle ==
    Live =>
        \A k \in DrawShuffles :
            LET r == draw(Game, PlayerId(Actor), k)
            IN  /\ (remaining_cards = <<>> /\ Len(game_stack) = 1) =>
                      /\ r.outcome = "deck is empty!"
                      /\ SameGame(r.g)
                /\ r.outcome = "deck is empty!" =>
                      /\ remaining_cards = <<>> /\ Len(game_stack) = 1
                      /\ TotalInHands(hands) = 107

C17_RecyclingOnDraw == C17_Recycles /\ C17_NothingToRecycle

\* moves calls changed the game, the last a draw that recycled two cards
\* from under the top of the discard stack: one was drawn, one is the pile
C17_Witness ==
    /\ hand_size = 53 /\ Len(players_list) = 2
    /\ moves = 4
    /\ last.op = "draw" /\ last.outcome = "ok"
    /\ Len(game_stack) = 1
    /\ Len(remaining_cards) = 1
    /\ TotalInHands(hands) = 106

\* a draw found nothing to draw and nothing to recycle
C17_WitnessEmpty ==
    /\ last.op = "draw" /\ last.outcome = "deck is empty!"
    /\ remaining_cards = <<>> /\ Len(game_stack) = 1

(***************************************************************************)
(* C18  Active colour: in every state after construction current_color is  *)
(* one of red, blue, green, yellow; after a successful play of a coloured  *)
(* card it is that card's colour, after a successful play of a black card  *)
(* it is the chosen_color supplied; and whenever the top of the discard    *)
(* stack is a coloured card, current_color is that card's colour.          *)
(***************************************************************************)
C18_ActiveColor ==
    phase = "ready" =>
        /\ current_color \in {"red", "blue", "green", "yellow"}
        /\ Last(game_stack).color # "black" =>
              current_color = Last(game_stack).color
        /\ Live =>
              \A c \in Offered(hands[Actor]), u \in BOOLEAN,
                 k \in PlayShuffles(PlayerId(Actor)) :
                  \A col \in ExaminedColors(c), card \in Held(c) :
                      LET r == play(Game, PlayerId(Actor), c, col, u, k)
                      IN  r.outcome \in {"ok", "won"} =>
                             /\ Last(r.g.game_stack) = card
                             /\ card.color # "black" =>
                                   r.g.current_color = card.color
                             /\ card.color = "black" =>
                                   /\ r.g.current_color = col
                                   /\ col \in {"red", "blue", "green", "yellow"}

\* a black card was played with green chosen, over another colour
C18_Witness ==
    /\ last.op = "play" /\ last.outcome = "ok"
    /\ Len(game_stack) >= 2
    /\ Last(game_stack).color = "black"
    /\ current_color = "green"
    /\ game_stack[Len(game_stack) - 1].color \notin {"green", "black"}

ActorIds == {CardId(hands[Actor][i]) : i \in 1..Len(hands[Actor])}

SomeDrawChangesTheGame ==
    \E k \in DrawShuffles : ~SameGame(draw(Game, PlayerId(Actor), k).g)

SomePlayChangesTheGame ==
    \E c \in ActorIds, u \in BOOLEAN, k \in PlayShuffles(PlayerId(Actor)) :
        \E col \in ColorSet \cup {NoColor} :
            ~SameGame(play(Game, PlayerId(Actor), c, col, u, k).g)

SomeDrawPaysOff ==
    \E k \in DrawShuffles :
        draw(Game, PlayerId(Actor), k).g.pending_draw_count < pending_draw_count

C20_Progress ==
    (/\ Live
     /\ game_over_calls = <<>>
     /\ Cardinality(players) >= 2) =>
        /\ SomeDrawChangesTheGame \/ SomePlayChangesTheGame
        /\ Obligated => SomeDrawPaysOff

(***************************************************************************)
(* C21  Room capacity: when every join calls allow_player and calls        *)
(* add_player_to_room only after it returned (True, None), then under any  *)
(* interleaving of join requests for the same room the stored player set   *)
(* never holds more than MAX_PLAYERS_ALLOWED (2) players, and no accepted  *)
(* player is lost from the stored set.                                     *)
(***************************************************************************)
StoredPlayers == get_players_by_room(players_row)

\* the request was allowed and its add_player_to_room has returned
Accepted(i) == requests[i].pc = "done" /\ requests[i].verdict = ""

C21_AtMostTwo == Cardinality(StoredPlayers) <= MAX_PLAYERS_ALLOWED

C21_NoneLost == \A i \in Requests : Accepted(i) => RequestName(i) \in StoredPlayers

C21_RoomCapacity == C21_AtMostTwo /\ C21_NoneLost

====
